---- MODULE Spec2Model ----
(***************************************************************************)
(* Voice-Agent: a model of the streaming session engine.                   *)
(*                                                                         *)
(*   - the text chunker        app/services/llm_service.py                 *)
(*   - the audio codec adapter app/services/audio_utils.py                 *)
(*   - the realtime sessions   app/services/openai_realtime_service.py     *)
(*   - the HTTP/WebSocket API  app/apis/voice_agent.py                     *)
(*                                                                         *)
(* A text is a sequence of one-character strings, an audio buffer a        *)
(* sequence of bytes (0..255).  Python's None is None for a text, NoBytes   *)
(* for a buffer, NoConn for a connection and NoSession for an id.          *)
(***************************************************************************)
EXTENDS Integers, Sequences, FiniteSets, TLC

VARIABLES
    \* ---- text chunker (LLMService.buffer_text_for_chunking) ----
    min_chunk_size,   \* the min_chunk_size argument of the running call
    buffer,           \* the local accumulation buffer
    fed,              \* history: the fragments consumed so far, in order
    chunks,           \* history: the chunks yielded so far, in order
    cpc,              \* "run" while the stream is consumed, "done" after it
    \* ---- realtime service (OpenAIRealtimeService) ----
    sessions,         \* self.sessions: session id -> session entry
    audio_stats,      \* self.audio_stats: the global counters
    conns,            \* every provider connection opened so far
    rtlast,           \* history: the last service call and its outcome
    context_cache,    \* self.context_cache: cache key -> entry (TTLCache)
    now,              \* the clock the cache reads (seconds)
    builds,           \* history: the runs of the context builder, in order
    \* ---- HTTP/WebSocket API (voice_agent.py) ----
    active_sessions,  \* active_sessions: session id -> session data
    session_knowledge,\* knowledge_service.session_knowledge (ids that hold chunks)
    active_connections,\* websocket_manager.active_connections: id -> socket
    load_task,        \* per session id: the background knowledge-load task
    ws,               \* per client socket: the handler's position and locals
    inbox,            \* per client socket: what the client has received
    \* ---- audio codec adapter (AudioUtils), called on its own ----
    audio_in,         \* the buffer passed to the last call
    audio_call,       \* history: the last call (function, arguments, pass)
    audio_ret,        \* what the last call returned
    \* ---- sentence chunker (LLMService.chunk_text_for_tts), on its own ----
    tts_call,         \* history: the last call (text, max_tokens)
    tts_ret,          \* the list of chunks the last call returned
    \* ---- browser client (the page served by app/main.py) ----
    audioQueue,       \* audioQueue: the received chunks not yet started
    isPlayingAudio,   \* isPlayingAudio
    currentAudio,     \* currentAudio: an index into players, or NoAudio
    chunkCounter,     \* chunkCounter
    players,          \* every Audio element created so far, in order
    timers,           \* the setTimeout callbacks that have not run yet
    arrived,          \* history: the binary frames received so far
    resets            \* history: the transcription notifications so far

chunkVars == <<min_chunk_size, buffer, fed, chunks, cpc>>
cacheVars == <<context_cache, now, builds>>
rtVars    == <<sessions, audio_stats, conns, rtlast, cacheVars>>
apiVars   == <<active_sessions, session_knowledge, active_connections,
               load_task, ws, inbox>>
audioVars == <<audio_in, audio_call, audio_ret>>
ttsVars   == <<tts_call, tts_ret>>
clientVars == <<audioQueue, isPlayingAudio, currentAudio, chunkCounter,
                players, timers, arrived, resets>>
vars      == <<chunkVars, rtVars, apiVars, audioVars, ttsVars, clientVars>>

None == <<"None">>

NoBytes == <<-1>>

NoSession == "None"

(***************************************************************************)
(* Sequence helpers                                                        *)
(***************************************************************************)
Rep(t, n) == [i \in 1..(n * Len(t)) |-> t[((i - 1) % Len(t)) + 1]]

Last(s) == s[Len(s)]

Front(s) == SubSeq(s, 1, Len(s) - 1)

\* The concatenation of the sequences ss[lo..hi].
RECURSIVE FlattenRange(_, _, _)
FlattenRange(ss, lo, hi) ==
    IF lo > hi THEN <<>>
    ELSE IF lo = hi THEN ss[lo]
    ELSE LET mid == (lo + hi) \div 2 IN
         FlattenRange(ss, lo, mid) \o FlattenRange(ss, mid + 1, hi)

Flatten(ss) == FlattenRange(ss, 1, Len(ss))

SetMin(S) == CHOOSE x \in S : \A y \in S : x <= y

SetMax(S) == CHOOSE x \in S : \A y \in S : x >= y

(***************************************************************************)
(* Python str primitives used by the chunker                               *)
(***************************************************************************)
\* str.isspace() of one character: what strip() and split() treat as blank.
Whitespace == {" ", "\n", "\t"}

\* The positions of t that hold a non-blank character.
Inked(t) == {i \in 1..Len(t) : t[i] \notin Whitespace}

\* str.strip()
Strip(t) ==
    IF Inked(t) = {} THEN <<>>
    ELSE SubSeq(t, SetMin(Inked(t)), SetMax(Inked(t)))

\* str.split() without arguments: the maximal runs of non-blank characters.
Split(t) ==
    LET ink    == Inked(t)
        starts == {i \in ink : i = 1 \/ (i - 1) \notin ink}
        ends   == {i \in ink : i = Len(t) \/ (i + 1) \notin ink}
        Nth(S, k) == CHOOSE i \in S : Cardinality({j \in S : j <= i}) = k
    IN [k \in 1..Cardinality(starts) |-> SubSeq(t, Nth(starts, k), Nth(ends, k))]

\* " ".join(words)
RECURSIVE JoinRange(_, _, _)
JoinRange(words, lo, hi) ==
    IF lo > hi THEN <<>>
    ELSE IF lo = hi THEN words[lo]
    ELSE LET mid == (lo + hi) \div 2 IN
         JoinRange(words, lo, mid) \o <<" ">> \o JoinRange(words, mid + 1, hi)

Join(words) == JoinRange(words, 1, Len(words))

\* str.endswith(suffix)
EndsWith(t, suffix) ==
    /\ Len(t) >= Len(suffix)
    /\ SubSeq(t, Len(t) - Len(suffix) + 1, Len(t)) = suffix

(***************************************************************************)
(* LLMService.buffer_text_for_chunking                                     *)
(***************************************************************************)
\* The length above which the buffer is yielded whatever it ends with.
HardCeiling == 100

\* A boundary test that also takes a trailing comma for a boundary.
EndsSentenceOrComma(b) ==
    \/ EndsWith(b, <<".">>) \/ EndsWith(b, <<"!">>) \/ EndsWith(b, <<"?">>)
    \/ EndsWith(b, <<".", " ">>) \/ EndsWith(b, <<"!", " ">>)
    \/ EndsWith(b, <<"?", " ">>)
    \/ EndsWith(b, <<",">>) \/ EndsWith(b, <<",", " ">>)

\* The first branch's boundary test: the buffer ends a sentence.
EndsSentence(b) ==
    \/ EndsWith(b, <<".">>) \/ EndsWith(b, <<"!">>) \/ EndsWith(b, <<"?">>)
    \/ EndsWith(b, <<".", " ">>) \/ EndsWith(b, <<"!", " ">>)
    \/ EndsWith(b, <<"?", " ">>)

\* The forced branch: all words but the last are yielded, the last is kept.
ForcedSplit(b) ==
    LET words == Split(b) IN
    IF Len(words) > 1
    THEN [out |-> <<Strip(Join(Front(words)))>>, buf |-> Last(words)]
    ELSE [out |-> <<Strip(b)>>, buf |-> <<>>]

\* A loop body that takes the None sentinel for the end of a sentence and
\* yields what is buffered.
ChunkStepSentinelFlushes(buf, piece, minsize) ==
    IF piece = None
    THEN [out |-> IF Strip(buf) # <<>> THEN <<Strip(buf)>> ELSE <<>>,
          buf |-> <<>>]
    ELSE LET b == buf \o piece IN
         IF Len(b) >= minsize /\ EndsSentence(b)
         THEN [out |-> <<Strip(b)>>, buf |-> <<>>]
         ELSE IF Len(b) > HardCeiling
              THEN ForcedSplit(b)
              ELSE [out |-> <<>>, buf |-> b]

\* One iteration of the async-for loop on one text_piece: the chunks it
\* yields (none or one) and the buffer it leaves.
ChunkStep(buf, piece, minsize) ==
    IF piece = None
    THEN [out |-> <<>>, buf |-> buf]
    ELSE LET b == buf \o piece IN
         IF Len(b) >= minsize /\ EndsSentence(b)
         THEN [out |-> <<Strip(b)>>, buf |-> <<>>]
         ELSE IF Len(b) > HardCeiling
              THEN ForcedSplit(b)
              ELSE [out |-> <<>>, buf |-> b]

\* A flush that yields every remainder that is not empty, blank or not.
ChunkFlushRaw(buf) == IF buf # <<>> THEN <<Strip(buf)>> ELSE <<>>

\* After the loop: the remainder is yielded when it is not blank.
ChunkFlush(buf) == IF Strip(buf) # <<>> THEN <<Strip(buf)>> ELSE <<>>

\* The whole generator on a finite stream of pieces.
RECURSIVE ChunkAll(_, _, _)
ChunkAll(buf, pieces, minsize) ==
    IF pieces = <<>> THEN ChunkFlush(buf)
    ELSE LET r == ChunkStep(buf, Head(pieces), minsize) IN
         r.out \o ChunkAll(r.buf, Tail(pieces), minsize)

\* ---- bounded inputs of the chunker ----
MaxFrags == 4

LongWord == Rep(<<"a">>, 60)

LongRun == Rep(<<"a", "b", "c", " ">>, 13)

BlankRun == Rep(<<" ">>, 60)

Fragments ==
    { <<"a", "b">>, <<" ">>, <<".">>, <<" ", "c">>, <<"a", " ", " ", "b">>,
      LongWord, LongRun, BlankRun }

MinChunkSizes == {2, 5, 10}

\* A reply streamed in four fragments.
HelloFragments ==
    << <<"H", "e", "l", "l", "o">>, <<",", " ">>,
       <<"h", "o", "w", " ", "a", "r", "e", " ", "y", "o", "u">>,
       <<"?">> >>

HelloReply == Flatten(HelloFragments)

\* The pieces the stream can deliver after those in f: any fragment, the
\* None sentinel, or the next fragment of the reply while f is its start.
NextPieces(f) ==
    Fragments \cup {None} \cup
    (IF Len(f) < Len(HelloFragments) /\ f = SubSeq(HelloFragments, 1, Len(f))
     THEN {HelloFragments[Len(f) + 1]} ELSE {})

ChunkInit ==
    /\ min_chunk_size \in MinChunkSizes
    /\ buffer = <<>>
    /\ fed = <<>>
    /\ chunks = <<>>
    /\ cpc = "run"

\* The stream delivers one more piece (a fragment or the None sentinel).
ChunkFeed ==
    /\ cpc = "run"
    /\ Len(fed) < MaxFrags
    /\ \E piece \in NextPieces(fed) :
          LET r == ChunkStep(buffer, piece, min_chunk_size) IN
          /\ buffer' = r.buf
          /\ chunks' = chunks \o r.out
          /\ fed' = Append(fed, piece)
    /\ UNCHANGED <<min_chunk_size, cpc, rtVars, apiVars, audioVars, ttsVars, clientVars>>

\* The stream is exhausted.
ChunkExhaust ==
    /\ cpc = "run"
    /\ chunks' = chunks \o ChunkFlush(buffer)
    /\ buffer' = <<>>
    /\ cpc' = "done"
    /\ UNCHANGED <<min_chunk_size, fed, rtVars, apiVars, audioVars, ttsVars, clientVars>>

(***************************************************************************)
(* AudioUtils (audio_utils.py): pure functions over byte buffers           *)
(***************************************************************************)
\* struct.unpack('<h', ...) of one byte pair: a signed 16-bit sample.
Sample16(lo, hi) ==
    LET u == lo + 256 * hi IN IF u >= 32768 THEN u - 65536 ELSE u

\* np.frombuffer(audio_data, dtype=np.int16) of an even-length buffer.
Samples(data) ==
    [i \in 1..(Len(data) \div 2) |-> Sample16(data[2 * i - 1], data[2 * i])]

\* ndarray.tobytes() of int16 samples (little-endian).
SampleBytes(smp) ==
    [i \in 1..(2 * Len(smp)) |->
        LET v == smp[(i + 1) \div 2]
            u == IF v < 0 THEN v + 65536 ELSE v
        IN IF i % 2 = 1 THEN u % 256 ELSE u \div 256]

Min(a, b) == IF a <= b THEN a ELSE b

\* A validation that does not look at the parity of the length.
validate_any_length(data) ==
    IF Len(data) < 2 THEN FALSE
    ELSE LET sample_count == Len(data) \div 2
             first_samples == Samples(SubSeq(data, 1, Min(20, 2 * sample_count)))
         IN \A i \in 1..Min(10, sample_count) :
                -32768 <= first_samples[i] /\ first_samples[i] <= 32767

\* AudioUtils.validate_pcm16_24khz
validate_pcm16_24khz(data) ==
    IF Len(data) % 2 # 0 THEN FALSE
    ELSE IF Len(data) < 2 THEN FALSE
    ELSE LET sample_count == Len(data) \div 2
             first_samples == Samples(SubSeq(data, 1, Min(20, Len(data))))
         IN IF sample_count > 0
            THEN \A i \in 1..Min(10, sample_count) :
                     -32768 <= first_samples[i] /\ first_samples[i] <= 32767
            ELSE FALSE

\* Integer division rounding toward zero (float -> int16 by astype).
TruncDiv(a, d) == IF a >= 0 THEN a \div d ELSE -((-a) \div d)

\* AudioUtils._resample_pcm16: linear interpolation over the int16 samples;
\* None when an exception is caught (odd length, no samples, zero rate).
resample_pcm16(data, source_rate, target_rate) ==
    IF Len(data) % 2 # 0 \/ source_rate = 0 \/ Len(data) = 0
    THEN NoBytes
    ELSE LET smp == Samples(data)
             n   == Len(smp)
             m   == (n * target_rate) \div source_rate
             At(i) ==   \* the i-th output sample, i in 0..m-1
                 IF m = 1 \/ n = 1 THEN smp[1]
                 ELSE LET num == i * (n - 1)
                          den == m - 1
                          j   == num \div den
                          r   == num % den
                      IN IF r = 0 THEN smp[j + 1]
                         ELSE TruncDiv(smp[j + 1] * den
                                       + (smp[j + 2] - smp[j + 1]) * r, den)
         IN SampleBytes([i \in 1..m |-> At(i - 1)])

\* Truth value of an Optional[bytes]: None and b'' are false.
Truthy(b) == b # NoBytes /\ b # <<>>

\* The sample rate the service needs.
TargetRate == 24000

\* The default of convert_to_pcm16_24khz's source_sample_rate parameter.
DefaultSourceRate == 48000

\* A conversion without the shortcut for buffers that are canonical already.
convert_always_resamples(data, source_format, source_sample_rate) ==
    LET converted == IF source_sample_rate # TargetRate
                     THEN resample_pcm16(data, source_sample_rate, TargetRate)
                     ELSE NoBytes
    IN IF source_sample_rate # TargetRate /\ Truthy(converted)
       THEN converted
       ELSE data

\* AudioUtils.convert_to_pcm16_24khz (source_format is only logged).
convert_to_pcm16_24khz(data, source_format, source_sample_rate) ==
    IF validate_pcm16_24khz(data) THEN data
    ELSE LET converted == IF source_sample_rate # TargetRate
                          THEN resample_pcm16(data, source_sample_rate, TargetRate)
                          ELSE NoBytes
         IN IF source_sample_rate # TargetRate /\ Truthy(converted)
            THEN converted
            ELSE data

Prefix(data, n) == SubSeq(data, 1, Min(n, Len(data)))

\* AudioUtils.detect_audio_format
detect_audio_format(data) ==
    IF Len(data) < 12 THEN "unknown"
    ELSE LET header == SubSeq(data, 1, 12) IN
         IF Prefix(header, 4) = <<82, 73, 70, 70>>
            /\ SubSeq(header, 9, 12) = <<87, 65, 86, 69>> THEN "wav"
         ELSE IF Prefix(header, 4) = <<26, 69, 223, 163>> THEN "webm"
         ELSE IF Prefix(header, 3) = <<73, 68, 51>>
                 \/ Prefix(header, 2) = <<255, 251>> THEN "mp3"
         ELSE IF Prefix(header, 4) = <<79, 103, 103, 83>> THEN "ogg"
         ELSE IF validate_pcm16_24khz(data) THEN "pcm16"
         ELSE "unknown"

\* ---- the adapter's functions called on bounded buffers ----
\* ---- bounds ----
MaxBufLen == 3

MaxPasses == 2

\* The byte values short buffers are made of.
ByteValues == {0, 128, 255}

RECURSIVE BuffersOfLen(_)
BuffersOfLen(n) ==
    IF n = 0 THEN {<<>>}
    ELSE {Append(b, v) : b \in BuffersOfLen(n - 1), v \in ByteValues}

ShortBuffers == UNION {BuffersOfLen(n) : n \in 0..MaxBufLen}

\* Buffers of header length and more: with and without a magic number,
\* of even and of odd length, and one of more samples than are looked at.
LongBuffers ==
    { <<82, 73, 70, 70, 0, 0, 0, 0, 87, 65, 86, 69>>,
      <<82, 73, 70, 70, 0, 0, 0, 0, 65, 86, 73, 32>>,
      <<26, 69, 223, 163, 1, 2, 3, 4, 5, 6, 7, 8>>,
      <<26, 69, 223, 163, 1, 2, 3, 4, 5, 6, 7, 8, 9>>,
      <<73, 68, 51, 3, 0, 0, 0, 0, 0, 0, 0, 0>>,
      <<255, 251, 144, 0, 0, 0, 0, 0, 0, 0, 0, 0, 0>>,
      <<79, 103, 103, 83, 0, 2, 0, 0, 0, 0, 0, 0>>,
      <<0, 0, 255, 127, 0, 128, 1, 0, 0, 0, 0, 0>>,
      <<0, 0, 255, 127, 0, 128, 1, 0, 0, 0, 0, 0, 7>>,
      Rep(<<255, 127>>, 11) }

\* Short buffers that begin like a container.
ShortHeaders == { <<73, 68, 51>>, <<255, 251>>, <<79, 103, 103, 83>> }

AudioBuffers == ShortBuffers \cup LongBuffers \cup ShortHeaders

\* The source_format and source_sample_rate arguments a caller declares.
SourceFormats == {"webm", "pcm16"}

SourceRates == {0, TargetRate, DefaultSourceRate}

NoCall == [fn |-> "none", format |-> "", rate |-> 0, origin |-> <<>>, pass |-> 0]

\* A returned value: a truth value, bytes (or None), or a format tag; the
\* parts a function does not return are left empty.
Ret(flag, data, tag) == [flag |-> flag, data |-> data, tag |-> tag]

AudioInit ==
    /\ audio_in = <<>>
    /\ audio_call = NoCall
    /\ audio_ret = Ret(FALSE, NoBytes, "")

\* validate_pcm16_24khz(audio_data) is called.
CallValidate ==
    /\ \E a \in AudioBuffers :
          /\ audio_in' = a
          /\ audio_call' = [NoCall EXCEPT !.fn = "validate", !.origin = a, !.pass = 1]
          /\ audio_ret' = Ret(validate_pcm16_24khz(a), NoBytes, "")
    /\ UNCHANGED <<chunkVars, rtVars, apiVars, ttsVars, clientVars>>

\* convert_to_pcm16_24khz(audio_data, source_format, source_sample_rate)
\* is called.
CallConvert ==
    /\ \E a \in AudioBuffers, f \in SourceFormats, r \in SourceRates :
          /\ audio_in' = a
          /\ audio_call' = [fn |-> "convert", format |-> f, rate |-> r,
                            origin |-> a, pass |-> 1]
          /\ audio_ret' = Ret(FALSE, convert_to_pcm16_24khz(a, f, r), "")
    /\ UNCHANGED <<chunkVars, rtVars, apiVars, ttsVars, clientVars>>

\* convert_to_pcm16_24khz is called again, on what it returned.
CallConvertAgain ==
    /\ audio_call.fn = "convert"
    /\ audio_call.pass < MaxPasses
    /\ audio_ret.data # NoBytes
    /\ \E f \in SourceFormats, r \in SourceRates :
          /\ audio_in' = audio_ret.data
          /\ audio_call' = [fn |-> "convert", format |-> f, rate |-> r,
                            origin |-> audio_call.origin,
                            pass |-> audio_call.pass + 1]
          /\ audio_ret' = Ret(FALSE, convert_to_pcm16_24khz(audio_ret.data, f, r), "")
    /\ UNCHANGED <<chunkVars, rtVars, apiVars, ttsVars, clientVars>>

\* detect_audio_format(audio_data) is called.
CallDetect ==
    /\ \E a \in AudioBuffers :
          /\ audio_in' = a
          /\ audio_call' = [NoCall EXCEPT !.fn = "detect", !.origin = a, !.pass = 1]
          /\ audio_ret' = Ret(FALSE, NoBytes, detect_audio_format(a))
    /\ UNCHANGED <<chunkVars, rtVars, apiVars, ttsVars, clientVars>>

AudioNext == CallValidate \/ CallConvert \/ CallConvertAgain \/ CallDetect

(***************************************************************************)
(* base64.b64encode / b64decode, on sextets 0..63 and the pad 64           *)
(***************************************************************************)
B64Pad == 64

RECURSIVE b64encode(_)
b64encode(data) ==
    IF data = <<>> THEN <<>>
    ELSE IF Len(data) = 1
         THEN <<data[1] \div 4, (data[1] % 4) * 16, B64Pad, B64Pad>>
    ELSE IF Len(data) = 2
         THEN <<data[1] \div 4, (data[1] % 4) * 16 + data[2] \div 16,
                (data[2] % 16) * 4, B64Pad>>
    ELSE <<data[1] \div 4, (data[1] % 4) * 16 + data[2] \div 16,
           (data[2] % 16) * 4 + data[3] \div 64, data[3] % 64>>
         \o b64encode(SubSeq(data, 4, Len(data)))

RECURSIVE b64decode(_)
b64decode(txt) ==
    IF txt = <<>> THEN <<>>
    ELSE LET b1 == txt[1] * 4 + txt[2] \div 16
             b2 == (txt[2] % 16) * 16 + txt[3] \div 4
             b3 == (txt[3] % 4) * 64 + txt[4]
         IN IF txt[3] = B64Pad THEN <<b1>>
            ELSE IF txt[4] = B64Pad THEN <<b1, b2>>
            ELSE <<b1, b2, b3>> \o b64decode(SubSeq(txt, 5, Len(txt)))

(***************************************************************************)
(* Finite maps (Python dicts)                                              *)
(***************************************************************************)
Put(f, k, v) == [x \in (DOMAIN f) \cup {k} |-> IF x = k THEN v ELSE f[x]]

Drop(f, k) == [x \in (DOMAIN f) \ {k} |-> f[x]]

EmptyMap == [x \in {} |-> NoSession]

(***************************************************************************)
(* OpenAIRealtimeService (openai_realtime_service.py)                      *)
(*                                                                         *)
(* Each public coroutine is one action: the service's calls are taken one  *)
(* after the other.  What the network does (the connect, a send, the close *)
(* succeed or raise) is chosen by the environment.  Timestamps             *)
(* (created_at, last_activity) are left out.                               *)
(***************************************************************************)
SessionIds == {"s1", "s2"}

\* ---- bounds ----
MaxConns == 2

MaxSends == 2

WebmOdd == <<26, 69, 223, 163, 1, 2, 3, 4, 5, 6, 7, 8, 9>>

WavEven == <<82, 73, 70, 70, 0, 0, 0, 0, 87, 65, 86, 69>>

\* The audio buffers a caller passes to send_audio_chunk.
AudioInputs ==
    { <<>>, <<0, 128>>, <<1, 2, 3>>, WebmOdd, WavEven }

\* An instruction blob is a sequence of parts: the fixed text first, then
\* one part per document.  This is the default text of create_session.
DefaultInstructions == << [doc |-> 0, content |-> <<>>] >>

\* session.get('websocket') of an entry without the key.
NoConn == 0

\* The dict create_session stores (the 'websocket' key is absent: None).
NewSession(instr) ==
    [ status |-> "created", system_instructions |-> instr, websocket |-> NoConn,
      chunks_sent |-> 0, chunks_converted |-> 0, total_audio_bytes |-> 0 ]

\* websockets.connect(...): a new open provider connection of session s.
NewConn(s) == [sid |-> s, state |-> "open", sent |-> <<>>]

\* An event put on the provider connection; a field an event type does not
\* carry is left empty.
Event(type, instructions, audio) ==
    [type |-> type, instructions |-> instructions, audio |-> audio]

\* websocket.send(event) on connection c, when it does not raise.
ConnSend(cs, c, event) == [cs EXCEPT ![c].sent = Append(@, event)]

RtInit ==
    /\ sessions = EmptyMap
    /\ audio_stats = [ total_chunks_processed |-> 0, valid_chunks |-> 0,
                       converted_chunks |-> 0, rejected_chunks |-> 0 ]
    /\ conns = <<>>
    /\ rtlast = [op |-> "none", sid |-> NoSession, ok |-> FALSE, raised |-> FALSE]
    /\ context_cache = EmptyMap
    /\ now = 0
    /\ builds = <<>>

\* ---- the context cache: TTLCache(maxsize=100, ttl=3600) ----
CacheMaxSize == 100

CacheTtl == 3600

\* The number of knowledge chunks the builder reads.
DocLimit == 50

\* ---- bound ----
MaxTicks == 3

\* The knowledge a caller passes to create_session: a list of chunk
\* contents (empty: no knowledge).
KnowledgeInputs ==
    { << <<"a", " ", "b">> >>,
      << <<"a">>, <<"b">> >>,
      << <<"c">>, <<" ">> >> }

\* The text whose hash makes the cache key: " ".join of the contents.  The
\* hash of a str is taken to be collision-free, so the key is the text.
Fingerprint(knowledge_chunks) == Join(knowledge_chunks)

\* The cache never expiring its entries.
CacheLiveForever(cache, key, t) == key \in DOMAIN cache

\* key in cache: the entry is there and has not expired at time t.
CacheLive(cache, key, t) ==
    IF key \in DOMAIN cache THEN t < cache[key].expires ELSE FALSE

\* cache[key] = value at time t: the expired entries are removed, the
\* entry that expires first is evicted when the cache is full, and the
\* value is stored with its expiry time.
CachePut(cache, key, value, t) ==
    LET kept == {k \in DOMAIN cache : t < cache[k].expires}
        live == [k \in kept |-> cache[k]]
        room == IF key \notin kept /\ Cardinality(kept) >= CacheMaxSize
                THEN Drop(live, CHOOSE k \in kept :
                                  \A j \in kept : live[k].expires <= live[j].expires)
                ELSE live
    IN Put(room, key, [value |-> value, expires |-> t + CacheTtl])

\* The blob the builder makes: the fixed text, then one part for each of
\* the first DocLimit chunks whose trimmed content is not empty, numbered
\* by the chunk's position.
BuildContext(knowledge_chunks) ==
    LET n == Min(Len(knowledge_chunks), DocLimit)
        parts == [i \in 1..n |-> [doc |-> i, content |-> Strip(knowledge_chunks[i])]]
    IN << [doc |-> 0, content |-> <<"K", "B">>] >>
       \o SelectSeq(parts, LAMBDA part : part.content # <<>>)

\* _build_cached_system_context at time t: the blob it returns, the cache
\* it leaves, and whether the builder ran.
CachedContext(cache, knowledge_chunks, t) ==
    LET key == Fingerprint(knowledge_chunks) IN
    IF CacheLive(cache, key, t)
    THEN [blob |-> cache[key].value, cache |-> cache, built |-> FALSE]
    ELSE LET blob == BuildContext(knowledge_chunks) IN
         [blob |-> blob, cache |-> CachePut(cache, key, blob, t), built |-> TRUE]

\* create_session(session_id, knowledge_chunks=None): the instructions are
\* the cached context of the knowledge, or the default text without
\* knowledge; the entry is stored under the id, replacing any entry there.
create_session(s, knowledge_chunks) ==
    /\ IF knowledge_chunks # <<>>
       THEN LET r == CachedContext(context_cache, knowledge_chunks, now) IN
            /\ sessions' = Put(sessions, s, NewSession(r.blob))
            /\ context_cache' = r.cache
            /\ builds' = IF r.built
                         THEN Append(builds, [key |-> Fingerprint(knowledge_chunks),
                                              at |-> now, blob |-> r.blob])
                         ELSE builds
       ELSE /\ sessions' = Put(sessions, s, NewSession(DefaultInstructions))
            /\ UNCHANGED <<context_cache, builds>>
    /\ rtlast' = [op |-> "create", sid |-> s, ok |-> TRUE, raised |-> FALSE]
    /\ UNCHANGED <<audio_stats, conns, now, audioVars, ttsVars, clientVars, chunkVars, apiVars>>

\* Time passes: the clock advances by half the cache's TTL.
Tick ==
    /\ now < MaxTicks * (CacheTtl \div 2)
    /\ now' = now + CacheTtl \div 2
    /\ UNCHANGED <<sessions, audio_stats, conns, rtlast, context_cache, builds,
                   audioVars, ttsVars, clientVars, chunkVars, apiVars>>

\* connect_session(session_id)
connect_session(s) ==
    \/ \* the id is unknown: return None
       /\ s \notin DOMAIN sessions
       /\ rtlast' = [op |-> "connect", sid |-> s, ok |-> FALSE, raised |-> FALSE]
       /\ UNCHANGED <<sessions, audio_stats, conns, cacheVars, audioVars, ttsVars, clientVars, chunkVars, apiVars>>
    \/ \* websockets.connect raises: status 'error', return None
       /\ s \in DOMAIN sessions
       /\ sessions' = [sessions EXCEPT ![s].status = "error"]
       /\ rtlast' = [op |-> "connect", sid |-> s, ok |-> FALSE, raised |-> TRUE]
       /\ UNCHANGED <<audio_stats, conns, cacheVars, audioVars, ttsVars, clientVars, chunkVars, apiVars>>
    \/ \* the connection opens; the configuration is sent, or its send raises
       \* inside _send_session_configuration, which logs and returns
       /\ s \in DOMAIN sessions
       /\ Len(conns) < MaxConns
       /\ \E configOk \in BOOLEAN :
             LET c == Len(conns) + 1
                 opened == Append(conns, NewConn(s))
             IN /\ conns' = IF configOk
                            THEN ConnSend(opened, c,
                                     Event("session.update",
                                           sessions[s].system_instructions, <<>>))
                            ELSE opened
                /\ sessions' = [sessions EXCEPT ![s].websocket = c,
                                                ![s].status = "connected"]
                /\ rtlast' = [op |-> "connect", sid |-> s, ok |-> TRUE,
                              raised |-> ~configOk]
       /\ UNCHANGED <<audio_stats, cacheVars, audioVars, ttsVars, clientVars, chunkVars, apiVars>>

\* session_id in self.sessions and session.get('websocket') is truthy.
HasWebsocket(s) ==
    IF s \in DOMAIN sessions THEN sessions[s].websocket # NoConn ELSE FALSE

\* A send_audio_chunk that runs the conversion on every buffer, canonical
\* or not.
ProcessAudioAlwaysConverts(audio_data) ==
    LET detected_format == detect_audio_format(audio_data)
        processed_audio == convert_to_pcm16_24khz(audio_data, detected_format,
                                                  DefaultSourceRate)
    IN IF Truthy(processed_audio)
       THEN [audio |-> processed_audio, kind |-> "converted"]
       ELSE [audio |-> NoBytes, kind |-> "rejected"]

\* The part of send_audio_chunk between the counters and the send: the
\* buffer to forward, or None when the chunk is rejected, and how it counts.
ProcessAudio(audio_data) ==
    IF ~validate_pcm16_24khz(audio_data)
    THEN LET detected_format == detect_audio_format(audio_data)
             processed_audio == convert_to_pcm16_24khz(audio_data, detected_format,
                                                       DefaultSourceRate)
         IN IF Truthy(processed_audio)
            THEN [audio |-> processed_audio, kind |-> "converted"]
            ELSE [audio |-> NoBytes, kind |-> "rejected"]
    ELSE [audio |-> audio_data, kind |-> "valid"]

\* send_audio_chunk(session_id, audio_data)
send_audio_chunk(s, audio_data) ==
    \/ \* unknown id, or no provider connection: return False
       /\ ~HasWebsocket(s)
       /\ rtlast' = [op |-> "send", sid |-> s, ok |-> FALSE, raised |-> FALSE]
       /\ UNCHANGED <<sessions, audio_stats, conns, cacheVars, audioVars, ttsVars, clientVars, chunkVars, apiVars>>
    \/ /\ HasWebsocket(s)
       /\ audio_stats.total_chunks_processed < MaxSends
       /\ UNCHANGED <<cacheVars, audioVars, ttsVars, clientVars, chunkVars, apiVars>>
       /\ LET p == ProcessAudio(audio_data)
              c == sessions[s].websocket
          IN /\ sessions' =
                   [sessions EXCEPT
                      ![s].chunks_sent = @ + 1,
                      ![s].total_audio_bytes = @ + Len(audio_data),
                      ![s].chunks_converted =
                          IF p.kind = "converted" THEN @ + 1 ELSE @]
             /\ audio_stats' =
                   [audio_stats EXCEPT
                      !.total_chunks_processed = @ + 1,
                      !.valid_chunks = IF p.kind = "valid" THEN @ + 1 ELSE @,
                      !.converted_chunks = IF p.kind = "converted" THEN @ + 1 ELSE @,
                      !.rejected_chunks = IF p.kind = "rejected" THEN @ + 1 ELSE @]
             /\ \/ \* rejected: nothing is sent, return False
                   /\ p.kind = "rejected"
                   /\ conns' = conns
                   /\ rtlast' = [op |-> "send", sid |-> s, ok |-> FALSE, raised |-> FALSE]
                \/ \* the append event is sent, return True
                   /\ p.kind # "rejected"
                   /\ conns[c].state = "open"
                   /\ conns' = ConnSend(conns, c,
                                  Event("input_audio_buffer.append", <<>>,
                                        b64encode(p.audio)))
                   /\ rtlast' = [op |-> "send", sid |-> s, ok |-> TRUE, raised |-> FALSE]
                \/ \* websocket.send raises: logged, return False
                   /\ p.kind # "rejected"
                   /\ conns' = conns
                   /\ rtlast' = [op |-> "send", sid |-> s, ok |-> FALSE, raised |-> TRUE]

\* disconnect_session(session_id)
disconnect_session(s) ==
    \/ \* the id is unknown: return at once
       /\ s \notin DOMAIN sessions
       /\ rtlast' = [op |-> "disconnect", sid |-> s, ok |-> FALSE, raised |-> FALSE]
       /\ UNCHANGED <<sessions, audio_stats, conns, cacheVars, audioVars, ttsVars, clientVars, chunkVars, apiVars>>
    \/ \* the connection, if any, is closed and the entry deleted
       /\ s \in DOMAIN sessions
       /\ conns' = IF sessions[s].websocket # NoConn
                   THEN [conns EXCEPT ![sessions[s].websocket].state = "closed"]
                   ELSE conns
       /\ sessions' = Drop(sessions, s)
       /\ rtlast' = [op |-> "disconnect", sid |-> s, ok |-> FALSE, raised |-> FALSE]
       /\ UNCHANGED <<audio_stats, cacheVars, audioVars, ttsVars, clientVars, chunkVars, apiVars>>
    \/ \* websocket.close() raises: the except clause logs, the del is skipped
       /\ HasWebsocket(s)
       /\ rtlast' = [op |-> "disconnect", sid |-> s, ok |-> FALSE, raised |-> TRUE]
       /\ UNCHANGED <<sessions, audio_stats, conns, cacheVars, audioVars, ttsVars, clientVars, chunkVars, apiVars>>

RtNext ==
    \/ \E s \in SessionIds : create_session(s, <<>>)
    \/ \E s \in SessionIds : connect_session(s)
    \/ \E s \in SessionIds, a \in AudioInputs : send_audio_chunk(s, a)
    \/ \E s \in SessionIds : disconnect_session(s)

(***************************************************************************)
(* HTTP/WebSocket API (voice_agent.py)                                     *)
(*                                                                         *)
(* An HTTP handler without an await inside is one action.  The websocket   *)
(* handler is one process per client socket; its actions are the stretches *)
(* of code between the awaits on the network: receive_bytes, the           *)
(* transcription, the next fragment of the generation stream, the          *)
(* synthesis.  A send to the client is taken with the code before it.      *)
(***************************************************************************)
SocketIds == {"w1", "w2"}

\* ---- bounds ----
MaxUtter == 1

MaxReplyFrags == 2

\* min_chunk_size the websocket handler passes to buffer_text_for_chunking.
WsMinChunkSize == 5

\* The shortest text convert_text_chunk_to_speech sends to the provider.
TtsMinLen == 3

\* The fragments a generation stream delivers.
ReplyFragments == { <<"O", "k", "a", "y", ".">>, <<" ", "n", "o">> }

\* A notification as the client receives it.  src and reply are history:
\* the handler that sent it and the number of its utterance.  The field
\* searches of a handler is history too: the calls of search_knowledge for
\* the utterance at hand.
Msg(type, arg, n, text, src, reply) ==
    [type |-> type, arg |-> arg, n |-> n, text |-> text, src |-> src, reply |-> reply]

\* WebSocketManager.send_message / send_audio: the frame goes to the socket
\* registered under the session id, if any; a failing send is swallowed.
Deliver(inb, reg, socks, s, msg) ==
    IF s \in DOMAIN reg /\ socks[reg[s]].open
    THEN [inb EXCEPT ![reg[s]] = Append(@, msg)]
    ELSE inb

RECURSIVE DeliverAll(_, _, _, _, _)
DeliverAll(inb, reg, socks, s, msgs) ==
    IF msgs = <<>> THEN inb
    ELSE DeliverAll(Deliver(inb, reg, socks, s, Head(msgs)), reg, socks, s, Tail(msgs))

\* WebSocketManager.disconnect
Unregister(reg, s) == Drop(reg, s)

IdleSocket ==
    [ sid |-> NoSession, pc |-> "idle", open |-> TRUE, utter |-> 0,
      buf |-> <<>>, nfrag |-> 0, exhausted |-> FALSE,
      chunk_count |-> 0, full_response |-> <<>>, cur |-> <<>>,
      dispatched |-> 0, searches |-> 0 ]

ApiInit ==
    /\ active_sessions = EmptyMap
    /\ session_knowledge = {}
    /\ active_connections = EmptyMap
    /\ load_task = EmptyMap
    /\ ws = [w \in SocketIds |-> IdleSocket]
    /\ inbox = [w \in SocketIds |-> <<>>]

\* POST /start-session: a fresh uuid, status 'loading', the background task.
start_session(s) ==
    /\ s \notin DOMAIN load_task
    /\ active_sessions' = Put(active_sessions, s,
                              [status |-> "loading", knowledge_loaded |-> FALSE])
    /\ load_task' = Put(load_task, s, "pending")
    /\ UNCHANGED <<session_knowledge, active_connections, ws, inbox,
                   audioVars, ttsVars, clientVars, chunkVars, rtVars>>

\* A status update that reports every load as loaded.
LoadedStatusAlwaysReady(entry, success) ==
    [entry EXCEPT !.status = "ready", !.knowledge_loaded = TRUE]

\* The status load_knowledge_for_session writes for a loaded / failed load.
LoadedStatus(entry, success) ==
    IF success
    THEN [entry EXCEPT !.status = "ready", !.knowledge_loaded = TRUE]
    ELSE [entry EXCEPT !.status = "error"]

\* load_knowledge_for_session(session_id), the background task.  With the
\* session gone, building the notification raises KeyError, which is logged.
load_knowledge_for_session(s, success) ==
    /\ s \in DOMAIN load_task
    /\ load_task[s] = "pending"
    /\ load_task' = [load_task EXCEPT ![s] = "done"]
    /\ session_knowledge' = IF success THEN session_knowledge \cup {s}
                            ELSE session_knowledge
    /\ IF s \in DOMAIN active_sessions
       THEN LET e == LoadedStatus(active_sessions[s], success) IN
            /\ active_sessions' = [active_sessions EXCEPT ![s] = e]
            /\ inbox' = Deliver(inbox, active_connections, ws, s,
                           Msg("session_update", e.status, 0, <<>>, "task", 0))
       ELSE UNCHANGED <<active_sessions, inbox>>
    /\ UNCHANGED <<active_connections, ws,
                   audioVars, ttsVars, clientVars, chunkVars, rtVars>>

\* The purge emptying the whole knowledge store.
ClearAllKnowledge(know, s) == {}

\* KnowledgeService.clear_session_knowledge
clear_session_knowledge(know, s) == know \ {s}

\* DELETE /session/{session_id}
end_session(s) ==
    /\ active_sessions' = Drop(active_sessions, s)
    /\ session_knowledge' = clear_session_knowledge(session_knowledge, s)
    /\ active_connections' = Unregister(active_connections, s)
    /\ UNCHANGED <<load_task, ws, inbox,
                   audioVars, ttsVars, clientVars, chunkVars, rtVars>>

\* POST /query/text for session id s on the session store store: 404 for
\* an unknown id, 400 for a session that is not ready; otherwise the
\* knowledge is searched and the reply generated.
process_text_query(store, s) ==
    IF s \notin DOMAIN store THEN "404"
    ELSE IF store[s].status # "ready" THEN "400"
    ELSE "search"

(***************************************************************************)
(* websocket_endpoint(websocket, session_id)                               *)
(***************************************************************************)
\* The except/finally clauses that end the handler: WebSocketDisconnect is
\* only logged, any other exception is reported to the session's registered
\* socket; then websocket_manager.disconnect(session_id).
HandlerExit(inb, reg, socks, w, reportError) ==
    LET s == socks[w].sid IN
    [ inbox |-> IF reportError
                THEN Deliver(inb, reg, socks, s,
                        Msg("error", "Internal server error", 0, <<>>, w, socks[w].utter))
                ELSE inb,
      reg |-> Unregister(reg, s) ]

\* Lines 197-213: accept, register, then the session check.
WsConnect(w, s) ==
    /\ ws[w].pc = "idle"
    /\ LET reg == Put(active_connections, s, w)
           me  == [ws[w] EXCEPT !.sid = s]
       IN IF s \notin DOMAIN active_sessions
          THEN \* websocket.send_text(error), return, finally
               /\ inbox' = [inbox EXCEPT ![w] =
                     Append(@, Msg("error", "Session not found", 0, <<>>, w, 0))]
               /\ active_connections' = Unregister(reg, s)
               /\ ws' = [ws EXCEPT ![w] = [me EXCEPT !.pc = "done"]]
          ELSE /\ active_connections' = reg
               /\ ws' = [ws EXCEPT ![w] = [me EXCEPT !.pc = "recv"]]
               /\ inbox' = Deliver(inbox, reg, ws', s,
                     Msg("session_update", active_sessions[s].status, 0, <<>>, w, 0))
    /\ UNCHANGED <<active_sessions, session_knowledge, load_task,
                   audioVars, ttsVars, clientVars, chunkVars, rtVars>>

\* The client closes its end of the socket.
ClientClose(w) ==
    /\ ws[w].pc \notin {"idle", "done"}
    /\ ws[w].open
    /\ ws' = [ws EXCEPT ![w].open = FALSE]
    /\ UNCHANGED <<active_sessions, session_knowledge, active_connections,
                   load_task, inbox,
                   audioVars, ttsVars, clientVars, chunkVars, rtVars>>

Utterances == ws["w1"].utter + ws["w2"].utter

\* Lines 217-229: receive_bytes returns a frame.
WsReceive(w) ==
    /\ ws[w].pc = "recv"
    /\ ws[w].open
    /\ LET s == ws[w].sid IN
       \/ \* an empty frame: continue
          /\ UNCHANGED <<ws, inbox, active_connections>>
       \/ \* audio; last_activity is written into the session entry, which
          \* raises KeyError when the session is gone
          /\ s \notin DOMAIN active_sessions
          /\ LET x == HandlerExit(inbox, active_connections, ws, w, TRUE) IN
             /\ inbox' = x.inbox
             /\ active_connections' = x.reg
             /\ ws' = [ws EXCEPT ![w].pc = "done"]
       \/ /\ s \in DOMAIN active_sessions
          /\ Utterances < MaxUtter
          /\ ws' = [ws EXCEPT ![w].pc = "stt", ![w].utter = @ + 1,
                              ![w].searches = 0]
          /\ inbox' = Deliver(inbox, active_connections, ws, s,
                         Msg("processing", "transcribing", 0, <<>>, w, ws[w].utter + 1))
          /\ UNCHANGED active_connections
       \/ \* a frame that is not bytes: receive_bytes raises
          /\ LET x == HandlerExit(inbox, active_connections, ws, w, TRUE) IN
             /\ inbox' = x.inbox
             /\ active_connections' = x.reg
             /\ ws' = [ws EXCEPT ![w].pc = "done"]
    /\ UNCHANGED <<active_sessions, session_knowledge, load_task,
                   audioVars, ttsVars, clientVars, chunkVars, rtVars>>

\* receive_bytes raises WebSocketDisconnect: the client is gone.
WsDisconnected(w) ==
    /\ ws[w].pc = "recv"
    /\ ~ws[w].open
    /\ LET x == HandlerExit(inbox, active_connections, ws, w, FALSE) IN
       /\ inbox' = x.inbox
       /\ active_connections' = x.reg
    /\ ws' = [ws EXCEPT ![w].pc = "done"]
    /\ UNCHANGED <<active_sessions, session_knowledge, load_task,
                   audioVars, ttsVars, clientVars, chunkVars, rtVars>>

\* What the call of line 270 does.  It passes the session id as a third
\* argument: against the two-parameter generate_response_streaming of
\* llm_service.py it raises TypeError (caught at line 322); a generation
\* service that takes the session id, as the handler expects, returns the
\* stream of fragments.
GenerationCall == {"TypeError", "stream"}

\* Lines 232-276 and 322-327: the transcription returns.  Without a
\* transcript the error is reported and the loop goes on.  With one, the
\* knowledge is searched and the generation stream is requested.
WsTranscribed(w) ==
    /\ ws[w].pc = "stt"
    /\ LET s == ws[w].sid
           k == ws[w].utter
           searching == << Msg("transcription", "transcript", 0, <<>>, w, k),
                           Msg("processing", "searching", 0, <<>>, w, k),
                           Msg("processing", "generating", 0, <<>>, w, k),
                           Msg("processing", "generating", 0, <<>>, w, k) >>
       IN
       \/ /\ inbox' = Deliver(inbox, active_connections, ws, s,
                         Msg("error", "Failed to transcribe audio", 0, <<>>, w, k))
          /\ ws' = [ws EXCEPT ![w].pc = "recv"]
       \/ /\ "stream" \in GenerationCall
          /\ inbox' = DeliverAll(inbox, active_connections, ws, s, searching)
          /\ ws' = [ws EXCEPT ![w].pc = "gen", ![w].buf = <<>>, ![w].nfrag = 0,
                              ![w].exhausted = FALSE, ![w].chunk_count = 0,
                              ![w].full_response = <<>>, ![w].cur = <<>>,
                              ![w].dispatched = 0, ![w].searches = @ + 1]
       \/ /\ "TypeError" \in GenerationCall
          /\ inbox' = DeliverAll(inbox, active_connections, ws, s,
                         Append(searching,
                            Msg("error", "Failed to generate streaming response",
                                0, <<>>, w, k)))
          /\ ws' = [ws EXCEPT ![w].pc = "recv", ![w].searches = @ + 1]
    /\ UNCHANGED <<active_sessions, session_knowledge, active_connections,
                   load_task,
                   audioVars, ttsVars, clientVars, chunkVars, rtVars>>

\* TTSService.convert_text_chunk_to_speech: what a call may return.  A text
\* shorter than three characters returns None without a request; a request
\* returns the response body (which may be empty) or, on a status other
\* than 200, a timeout or any exception, None.
SynthOutcomes(text) ==
    IF text = <<>> \/ Len(Strip(text)) < TtsMinLen
    THEN {NoBytes}
    ELSE {NoBytes, <<>>, <<73, 68, 51>>}

\* The synthesis started as a task of its own, the loop going on to the
\* next chunk at once.
PcOnChunkDetached == "gen"

\* Where the handler waits after a chunk has been announced (line 298:
\* the synthesis is awaited before the next chunk is taken).
PcOnChunk == "tts"

\* Lines 282-296: the chunk is counted, appended and announced.
ChunkMsgs(w, k, chunk, n) ==
    << Msg("text_chunk", "", n, chunk, w, k),
       Msg("processing", "converting_chunk", n, <<>>, w, k) >>

\* Lines 300-312: the audio frame and its receipt, or the warning.  The
\* chunk number of an audio frame is history: the frame is the bare bytes.
SynthMsgs(w, k, n, audio) ==
    IF Truthy(audio)
    THEN << Msg("audio", "", n, <<>>, w, k),
            Msg("audio_chunk_sent", "", n, <<>>, w, k) >>
    ELSE << Msg("warning", "Failed to convert chunk", n, <<>>, w, k) >>

\* A completion notification carrying the accumulated text as it is, with
\* the blank that follows the last chunk.
CompleteMsgUntrimmed(w, k, full_response, chunk_count) ==
    Msg("response_complete", "", chunk_count, full_response, w, k)

\* Lines 315-320: the completion notification.
CompleteMsg(w, k, full_response, chunk_count) ==
    Msg("response_complete", "", chunk_count, Strip(full_response), w, k)

\* A failed synthesis leaving the loop.
PcAfterSynthAbort(exhausted, audio) ==
    IF exhausted \/ ~Truthy(audio) THEN "recv" ELSE "gen"

\* Where the handler goes once a chunk's synthesis has returned: to the
\* next chunk of the stream, or past the loop when the stream has ended.
PcAfterSynth(exhausted, audio) == IF exhausted THEN "recv" ELSE "gen"

\* A loop that does not count its chunks.
OnChunkUncounted(rec, text_chunk) ==
    IF text_chunk = <<>> THEN rec
    ELSE [rec EXCEPT !.full_response = @ \o text_chunk \o <<" ">>,
                     !.cur = text_chunk,
                     !.pc = PcOnChunk]

\* The handler's locals after chunk text_chunk came out of chunk_stream
\* (an empty chunk is skipped by `continue`).
OnChunk(rec, text_chunk) ==
    IF text_chunk = <<>> THEN rec
    ELSE [rec EXCEPT !.chunk_count = @ + 1,
                     !.full_response = @ \o text_chunk \o <<" ">>,
                     !.cur = text_chunk,
                     !.pc = PcOnChunk]

\* The generation stream yields a fragment and the chunker consumes it.
WsFragment(w) ==
    /\ ws[w].pc = "gen"
    /\ ws[w].nfrag < MaxReplyFrags
    /\ \E piece \in ReplyFragments :
          LET r   == ChunkStep(ws[w].buf, piece, WsMinChunkSize)
              rec == [ws[w] EXCEPT !.buf = r.buf, !.nfrag = @ + 1]
          IN IF r.out = <<>>
             THEN /\ ws' = [ws EXCEPT ![w] = rec]
                  /\ inbox' = inbox
             ELSE LET nxt == OnChunk(rec, r.out[1]) IN
                  /\ ws' = [ws EXCEPT ![w] = nxt]
                  /\ inbox' = IF r.out[1] = <<>> THEN inbox
                              ELSE DeliverAll(inbox, active_connections, ws, ws[w].sid,
                                      ChunkMsgs(w, ws[w].utter, r.out[1], nxt.chunk_count))
    /\ UNCHANGED <<active_sessions, session_knowledge, active_connections,
                   load_task,
                   audioVars, ttsVars, clientVars, chunkVars, rtVars>>

\* The generation stream ends: exhausted, or cut by an exception, which
\* generate_response_streaming turns into a final None.  The chunker yields
\* the remainder, if any; without one the reply is complete.
WsStreamEnd(w) ==
    /\ ws[w].pc = "gen"
    /\ \E failed \in BOOLEAN :
          LET b   == IF failed THEN ChunkStep(ws[w].buf, None, WsMinChunkSize).buf
                     ELSE ws[w].buf
              out == ChunkFlush(b)
              rec == [ws[w] EXCEPT !.buf = <<>>, !.exhausted = TRUE]
          IN IF out = <<>>
             THEN /\ ws' = [ws EXCEPT ![w] = [rec EXCEPT !.pc = "recv"]]
                  /\ inbox' = Deliver(inbox, active_connections, ws, ws[w].sid,
                                 CompleteMsg(w, ws[w].utter, rec.full_response,
                                             rec.chunk_count))
             ELSE LET nxt == OnChunk(rec, out[1]) IN
                  /\ ws' = [ws EXCEPT ![w] = nxt]
                  /\ inbox' = DeliverAll(inbox, active_connections, ws, ws[w].sid,
                                 ChunkMsgs(w, ws[w].utter, out[1], nxt.chunk_count))
    /\ UNCHANGED <<active_sessions, session_knowledge, active_connections,
                   load_task,
                   audioVars, ttsVars, clientVars, chunkVars, rtVars>>

\* The synthesis of the current chunk returns.
WsSynthesized(w) ==
    /\ ws[w].pc = "tts"
    /\ \E audio \in SynthOutcomes(ws[w].cur) :
          LET n    == ws[w].chunk_count
              k    == ws[w].utter
              pc2  == PcAfterSynth(ws[w].exhausted, audio)
              msgs == SynthMsgs(w, k, n, audio)
                      \o IF pc2 = "recv"
                         THEN <<CompleteMsg(w, k, ws[w].full_response, n)>>
                         ELSE <<>>
          IN /\ ws' = [ws EXCEPT ![w].pc = pc2, ![w].dispatched = n]
             /\ inbox' = DeliverAll(inbox, active_connections, ws, ws[w].sid, msgs)
    /\ UNCHANGED <<active_sessions, session_knowledge, active_connections,
                   load_task,
                   audioVars, ttsVars, clientVars, chunkVars, rtVars>>

\* The API with the client sockets Socks in use and the session ids Sess.
ApiNext(Socks, Sess) ==
    \/ \E s \in Sess : start_session(s)
    \/ \E s \in Sess, ok \in BOOLEAN : load_knowledge_for_session(s, ok)
    \/ \E s \in Sess : end_session(s)
    \/ \E w \in Socks, s \in Sess : WsConnect(w, s)
    \/ \E w \in Socks : ClientClose(w)
    \/ \E w \in Socks : WsReceive(w)
    \/ \E w \in Socks : WsDisconnected(w)
    \/ \E w \in Socks : WsTranscribed(w)
    \/ \E w \in Socks : WsFragment(w)
    \/ \E w \in Socks : WsStreamEnd(w)
    \/ \E w \in Socks : WsSynthesized(w)

(***************************************************************************)
(* LLMService.chunk_text_for_tts                                           *)
(***************************************************************************)
\* estimate_tokens with eight characters to the token.
estimate_tokens_eighth(t) == Len(t) \div 8

\* estimate_tokens(text): len(text) // 4
estimate_tokens(t) == Len(t) \div 4

\* re.split(r'(?<=[.!?])\s+', text): the text is cut at every maximal run
\* of blanks that follows '.', '!' or '?'; the runs are dropped, and the
\* pieces between them are returned, an empty one included.
SentenceSplit(t) ==
    LET seps   == {i \in 2..Len(t) : /\ t[i] \in Whitespace
                                     /\ t[i - 1] \in {".", "!", "?"}}
        RunEnd(i) == SetMax({j \in i..Len(t) :
                                \A k \in i..j : t[k] \in Whitespace})
        starts == {1} \cup {RunEnd(i) + 1 : i \in seps}
        EndOf(p) == IF \E i \in seps : i > p
                    THEN SetMin({i \in seps : i > p}) - 1
                    ELSE Len(t)
        Nth(S, k) == CHOOSE i \in S : Cardinality({j \in S : j <= i}) = k
    IN [k \in 1..Cardinality(starts) |->
           SubSeq(t, Nth(starts, k), EndOf(Nth(starts, k)))]

\* The loop over the sentences from the i-th on, with the chunks appended
\* so far and current_chunk, and the append of the last chunk after it.
RECURSIVE SentenceLoop(_, _, _, _, _)
SentenceLoop(sentences, i, out, current_chunk, max_tokens) ==
    IF i > Len(sentences)
    THEN IF Strip(current_chunk) # <<>>
         THEN Append(out, Strip(current_chunk))
         ELSE out
    ELSE LET sentence == Strip(sentences[i]) IN
         IF sentence = <<>>
         THEN SentenceLoop(sentences, i + 1, out, current_chunk, max_tokens)
         ELSE IF /\ current_chunk # <<>>
                 /\ estimate_tokens(current_chunk \o <<" ">> \o sentence)
                      > max_tokens
         THEN SentenceLoop(sentences, i + 1,
                           Append(out, Strip(current_chunk)), sentence,
                           max_tokens)
         ELSE SentenceLoop(sentences, i + 1, out,
                           IF current_chunk # <<>>
                           THEN current_chunk \o <<" ">> \o sentence
                           ELSE sentence,
                           max_tokens)

\* chunk_text_for_tts(text, max_tokens)
chunk_text_for_tts(text, max_tokens) ==
    SentenceLoop(SentenceSplit(text), 1, <<>>, <<>>, max_tokens)

\* The number of pieces a text is put together from.
MaxPieces == 4

\* Sentences with and without a terminator, with a terminator inside a
\* word, and blanks of one and of several characters.
TtsPieces ==
    { <<"H", "i", ".">>, <<"G", "o", " ", "o", "n", "!">>, <<"n", "o">>,
      <<"v", "1", ".", "2", "?">>, <<" ">>, <<"\n", " ">> }

RECURSIVE TextsOf(_)
TextsOf(n) ==
    IF n = 0 THEN {<<>>}
    ELSE {t \o p : t \in TextsOf(n - 1), p \in TtsPieces}

\* A text long enough to be cut under the default max_tokens.
LongText == Rep(<<"G", "o", " ", "o", "n", "!", " ">>, 10)

TtsTexts == UNION {TextsOf(n) : n \in 0..MaxPieces} \cup {LongText}

\* The max_tokens arguments; 15 is the default.
MaxTokens == {0, 1, 2, 3, 15}

TtsInit ==
    /\ tts_call = [text |-> <<>>, max_tokens |-> 0, calls |-> 0]
    /\ tts_ret = <<>>

\* chunk_text_for_tts(text, max_tokens) is called, once in a run.
CallChunkText ==
    /\ tts_call.calls = 0
    /\ \E t \in TtsTexts, m \in MaxTokens :
          /\ tts_call' = [text |-> t, max_tokens |-> m, calls |-> 1]
          /\ tts_ret' = chunk_text_for_tts(t, m)
    /\ UNCHANGED <<chunkVars, rtVars, apiVars, audioVars, clientVars>>

(***************************************************************************)
(* The browser client's audio queue (the page served by app/main.py)       *)
(***************************************************************************)
\* The binary frames and the transcription notifications a run receives.
MaxArrivals == 4

MaxResets == 1

\* currentAudio = null
NoAudio == 0

\* new Audio() on which play() has been called for the chunk of frame b:
\* the promise play() returned is pending and nothing sounds yet.
NewAudio(b) == [blob |-> b, promise |-> "pending", playback |-> "waiting"]

ClientInit ==
    /\ audioQueue = <<>>
    /\ isPlayingAudio = FALSE
    /\ currentAudio = NoAudio
    /\ chunkCounter = 0
    /\ players = <<>>
    /\ timers = 0
    /\ arrived = 0
    /\ resets = 0

\* playNextAudioChunk() on the queue q, the element reference cur and the
\* elements els: what it leaves in audioQueue, isPlayingAudio, currentAudio
\* and the set of elements.
playNextAudioChunk(q, cur, els) ==
    IF Len(q) = 0
    THEN [audioQueue |-> q, isPlayingAudio |-> FALSE, currentAudio |-> cur,
          players |-> els]
    ELSE [audioQueue |-> Tail(q), isPlayingAudio |-> TRUE,
          currentAudio |-> Len(els) + 1,
          players |-> Append(els, NewAudio(Head(q).blob))]

\* The four variables playNextAudioChunk writes take the values of r.
ClientBecomes(r) ==
    /\ audioQueue' = r.audioQueue
    /\ isPlayingAudio' = r.isPlayingAudio
    /\ currentAudio' = r.currentAudio
    /\ players' = r.players

\* websocket.onmessage with a Blob: chunkCounter++, queueAudioChunk.
queueAudioChunk ==
    /\ arrived < MaxArrivals
    /\ arrived' = arrived + 1
    /\ chunkCounter' = chunkCounter + 1
    /\ LET q == Append(audioQueue,
                       [blob |-> arrived + 1, chunkNumber |-> chunkCounter + 1])
       IN IF ~isPlayingAudio
          THEN ClientBecomes(playNextAudioChunk(q, currentAudio, players))
          ELSE /\ audioQueue' = q
               /\ UNCHANGED <<isPlayingAudio, currentAudio, players>>
    /\ UNCHANGED <<timers, resets>>
    /\ UNCHANGED <<chunkVars, rtVars, apiVars, audioVars, ttsVars>>

\* HTMLMediaElement.pause() on element e: a playing element stops, a
\* waiting one never starts (its play() promise is rejected later).
Paused(els, e) ==
    IF els[e].playback \in {"waiting", "playing"}
    THEN [els EXCEPT ![e].playback = "paused"]
    ELSE els

\* handleWebSocketMessage, case 'transcription': the queue reset.
handleTranscription ==
    /\ resets < MaxResets
    /\ resets' = resets + 1
    /\ audioQueue' = <<>>
    /\ chunkCounter' = 0
    /\ players' = IF currentAudio # NoAudio THEN Paused(players, currentAudio)
                  ELSE players
    /\ currentAudio' = NoAudio
    /\ isPlayingAudio' = FALSE
    /\ UNCHANGED <<timers, arrived>>
    /\ UNCHANGED <<chunkVars, rtVars, apiVars, audioVars, ttsVars>>

\* The promise of currentAudio.play() on element e is fulfilled: the
\* chunk starts to sound.  No handler of the page runs.
PlayStarted(e) ==
    /\ players[e].promise = "pending"
    /\ players[e].playback = "waiting"
    /\ players' = [players EXCEPT ![e].promise = "fulfilled",
                                  ![e].playback = "playing"]
    /\ UNCHANGED <<audioQueue, isPlayingAudio, currentAudio, chunkCounter,
                   timers, arrived, resets>>
    /\ UNCHANGED <<chunkVars, rtVars, apiVars, audioVars, ttsVars>>

\* The promise of currentAudio.play() on element e is rejected (playback
\* not allowed, the source unusable, or paused before it started): the
\* catch handler calls playNextAudioChunk at once.
PlayRejected(e) ==
    /\ players[e].promise = "pending"
    /\ LET els == [players EXCEPT
                      ![e].promise = "rejected",
                      ![e].playback = IF @ = "waiting" THEN "blocked" ELSE @]
       IN ClientBecomes(playNextAudioChunk(audioQueue, currentAudio, els))
    /\ UNCHANGED <<chunkCounter, timers, arrived, resets>>
    /\ UNCHANGED <<chunkVars, rtVars, apiVars, audioVars, ttsVars>>

\* The body shared by onended and onerror: it reads currentAudio.src, which
\* throws when currentAudio is null and ends the handler; otherwise it
\* clears currentAudio and sets the 50 ms timer.
AfterPlayback ==
    IF currentAudio = NoAudio
    THEN UNCHANGED <<currentAudio, timers>>
    ELSE /\ currentAudio' = NoAudio
         /\ timers' = timers + 1

\* currentAudio.onended fires on element e: its chunk has played through.
onended(e) ==
    /\ players[e].playback = "playing"
    /\ players' = [players EXCEPT ![e].playback = "ended"]
    /\ AfterPlayback
    /\ UNCHANGED <<audioQueue, isPlayingAudio, chunkCounter, arrived, resets>>
    /\ UNCHANGED <<chunkVars, rtVars, apiVars, audioVars, ttsVars>>

\* currentAudio.onerror fires on element e: its source cannot be loaded
\* or decoded.  A pending play() promise of e is rejected after it.
onerror(e) ==
    /\ players[e].playback \in {"waiting", "playing"}
    /\ players' = [players EXCEPT ![e].playback = "error"]
    /\ AfterPlayback
    /\ UNCHANGED <<audioQueue, isPlayingAudio, chunkCounter, arrived, resets>>
    /\ UNCHANGED <<chunkVars, rtVars, apiVars, audioVars, ttsVars>>

\* A 50 ms timer set by onended or onerror runs: playNextAudioChunk.
TimerFires ==
    /\ timers > 0
    /\ timers' = timers - 1
    /\ ClientBecomes(playNextAudioChunk(audioQueue, currentAudio, players))
    /\ UNCHANGED <<chunkCounter, arrived, resets>>
    /\ UNCHANGED <<chunkVars, rtVars, apiVars, audioVars, ttsVars>>

ClientNext ==
    \/ queueAudioChunk
    \/ handleTranscription
    \/ \E e \in 1..Len(players) : PlayStarted(e)
    \/ \E e \in 1..Len(players) : PlayRejected(e)
    \/ \E e \in 1..Len(players) : onended(e)
    \/ \E e \in 1..Len(players) : onerror(e)
    \/ TimerFires

(***************************************************************************)
(* Specifications                                                          *)
(***************************************************************************)
ChunkNext == ChunkFeed \/ ChunkExhaust

\* The chunker alone, on every bounded fragment stream.
InitChunk ==
    ChunkInit /\ RtInit /\ ApiInit /\ AudioInit /\ TtsInit /\ ClientInit

SpecChunk == InitChunk /\ [][ChunkNext]_vars

Init ==
    /\ ChunkInit /\ min_chunk_size = WsMinChunkSize
    /\ RtInit /\ ApiInit /\ AudioInit /\ TtsInit /\ ClientInit

\* The audio codec adapter alone, each function on every bounded buffer.
SpecAudio == Init /\ [][AudioNext]_vars

\* The realtime service alone, under every sequence of its calls.
SpecRT == Init /\ [][RtNext]_vars

\* The HTTP/WebSocket API: every session id, one client socket.
Next == ApiNext({"w1"}, SessionIds)

Spec == Init /\ [][Next]_vars

\* The HTTP/WebSocket API: one session id, one client socket.
NextSolo == ApiNext({"w1"}, {"s1"})

SpecSolo == Init /\ [][NextSolo]_vars

\* The HTTP/WebSocket API: one session id, both client sockets.
NextPair == ApiNext(SocketIds, {"s1"})

SpecPair == Init /\ [][NextPair]_vars

\* The realtime service creating sessions from knowledge while time passes.
NextCache ==
    \/ \E s \in SessionIds, k \in KnowledgeInputs \cup {<<>>} : create_session(s, k)
    \/ Tick

SpecCache == Init /\ [][NextCache]_vars

\* No call of the realtime service has been made yet.
RtPristine == rtlast.op = "none"

\* No request or client connection has reached the API yet.
ApiPristine == load_task = EmptyMap /\ ws = [w \in SocketIds |-> IdleSocket]

\* The session lifecycle of the API: the session requests, and clients that
\* connect and leave without sending audio.
LifecycleNext ==
    \/ \E s \in SessionIds : start_session(s)
    \/ \E s \in SessionIds, ok \in BOOLEAN : load_knowledge_for_session(s, ok)
    \/ \E s \in SessionIds : end_session(s)
    \/ \E w \in SocketIds, s \in SessionIds : WsConnect(w, s)
    \/ \E w \in SocketIds : ClientClose(w)
    \/ \E w \in SocketIds : WsDisconnected(w)

\* The realtime service and the API's session lifecycle.  The two share no
\* state (nothing in src/ calls the realtime service), so a behaviour
\* exercises the one or the other.
NextIso ==
    \/ ApiPristine /\ RtNext
    \/ RtPristine /\ LifecycleNext

SpecIso == Init /\ [][NextIso]_vars

\* The background load of session s, whatever its outcome.
LoadRuns(s) == \E success \in BOOLEAN : load_knowledge_for_session(s, success)

\* Two sockets on one session under the scheduling of the event loop: a
\* background task that was added to the response runs.
SpecPairFair ==
    /\ Init /\ [][NextPair]_vars
    /\ WF_vars(LoadRuns("s1"))

\* The sentence chunker alone, on every bounded text and max_tokens.
SpecTts == Init /\ [][CallChunkText]_vars

\* The browser client's audio queue alone, under every order of its events.
SpecClient == Init /\ [][ClientNext]_vars

(***************************************************************************)
(* Properties                                                              *)
(***************************************************************************)
\* " ".join(t.split()): t trimmed and whitespace-normalized.
Normalized(t) == Join(Split(t))

\* The concatenation of the fragments fed so far (None carries no text).
FedText == Flatten([i \in 1..Len(fed) |-> IF fed[i] = None THEN <<>> ELSE fed[i]])

\* The chunks yielded so far, each trimmed, joined with single spaces.
ChunkText == Join([i \in 1..Len(chunks) |-> Strip(chunks[i])])

\* C1: once the fragment stream is exhausted, the emitted chunks, trimmed
\* and joined with single spaces, equal the concatenation of the input
\* fragments, trimmed and whitespace-normalized (runs of blanks inside a
\* chunk counting as one, as they do in the input).
C1_RoundTrip == cpc = "done" => Normalized(ChunkText) = Normalized(FedText)

\* The append events of connection c.
Appended(c) ==
    { i \in 1..Len(conns[c].sent) :
        conns[c].sent[i].type = "input_audio_buffer.append" }

\* C2: every buffer forwarded to a provider connection in an
\* input_audio_buffer.append event is canonical: its decoded bytes pass
\* validate_pcm16_24khz.
C2_ForwardedCanonical ==
    \A c \in 1..Len(conns) : \A i \in Appended(c) :
        validate_pcm16_24khz(b64decode(conns[c].sent[i].audio))

\* The positions of socket w's inbox that hold an audio frame.
AudioFrames(w) == { i \in 1..Len(inbox[w]) : inbox[w][i].type = "audio" }

\* Frames i and j of socket w's inbox belong to the same reply.
SameReply(w, i, j) ==
    /\ inbox[w][i].src = inbox[w][j].src
    /\ inbox[w][i].reply = inbox[w][j].reply

Registered(w) ==
    /\ ws[w].open
    /\ ws[w].sid \in DOMAIN active_connections
    /\ active_connections[ws[w].sid] = w

\* What socket w receives in the step.
Received(w) == SubSeq(inbox'[w], Len(inbox[w]) + 1, Len(inbox'[w]))

C5_ErrorReported ==
    \A w \in SocketIds :
        /\ (ws[w].pc = "done" /\ ws[w].open) =>
              (inbox[w] # <<>> /\ Last(inbox[w]).type = "error")
        /\ \A i \in 1..Len(inbox[w]) :
              inbox[w][i].type = "response_complete" => inbox[w][i].n > 0

\* C6: disconnect_session on an id that is not in the store, or called
\* again right after a call for the same id, and end_session on an id that
\* is not in the session store, leave the session store, the knowledge
\* store and the connection registry as they are, and no status changes for
\* an id that is not in the session store.
C6_EndIdempotent ==
    [][/\ \A s \in SessionIds :
            ( /\ disconnect_session(s)
              /\ \/ s \notin DOMAIN sessions
                 \/ (rtlast.op = "disconnect" /\ rtlast.sid = s) )
            => UNCHANGED sessions
       /\ \A s \in SessionIds :
            (end_session(s) /\ s \notin DOMAIN active_sessions)
            => UNCHANGED <<active_sessions, session_knowledge, active_connections>>
       /\ \A s \in SessionIds :
            s \notin DOMAIN active_sessions =>
               \/ s \notin DOMAIN active_sessions'
               \/ active_sessions'[s].status = "loading"
      ]_vars

\* C7: when disconnect_session(s) has returned, s is not in the session
\* store and the provider connection its entry recorded is closed.
C7_DisconnectEvicts ==
    [][\A s \in SessionIds :
         disconnect_session(s) =>
            /\ s \notin DOMAIN sessions'
            /\ HasWebsocket(s) => conns'[sessions[s].websocket].state = "closed"
      ]_vars

\* C8: every open provider connection is the one recorded in the entry of
\* its session, so a session has at most one.
C8_OneLiveConnection ==
    \A c \in 1..Len(conns) :
        conns[c].state = "open" =>
            /\ conns[c].sid \in DOMAIN sessions
            /\ sessions[conns[c].sid].websocket = c

\* The handler of socket w serves a session that has been ended.
Ended(w) == ws[w].sid # NoSession /\ ws[w].sid \notin DOMAIN active_sessions

C10_TornDown ==
    \A w \in SocketIds :
        (ws[w].pc = "done" /\ ws[w].sid # NoSession) =>
            /\ ws[w].sid \notin DOMAIN active_sessions
            /\ ws[w].sid \notin session_knowledge

\* What the stores hold for session id b: its realtime entry (status,
\* provider connection, counters), the provider connection itself, its API
\* entry, whether knowledge is loaded for it, and its registered websocket.
SessionView(b) ==
    << IF b \in DOMAIN sessions THEN <<sessions[b]>> ELSE <<>>,
       IF HasWebsocket(b) THEN <<conns[sessions[b].websocket]>> ELSE <<>>,
       IF b \in DOMAIN active_sessions THEN <<active_sessions[b]>> ELSE <<>>,
       b \in session_knowledge,
       IF b \in DOMAIN active_connections THEN active_connections[b] ELSE NoSession >>

\* The step is an operation on session id a: a call of the realtime
\* service for a, a session request for a, its background load, or a step
\* of a websocket handler of a.
OperationOn(a) ==
    \/ \E k \in KnowledgeInputs \cup {<<>>} : create_session(a, k)
    \/ connect_session(a)
    \/ \E audio \in AudioInputs : send_audio_chunk(a, audio)
    \/ disconnect_session(a)
    \/ start_session(a)
    \/ \E ok \in BOOLEAN : load_knowledge_for_session(a, ok)
    \/ end_session(a)
    \/ \E w \in SocketIds : WsConnect(w, a)
    \/ \E w \in SocketIds : ws[w].sid = a /\ (ClientClose(w) \/ WsDisconnected(w))

\* C11: an operation on session a, failed or not, leaves what the stores
\* hold for every other session b unchanged: status, provider connection,
\* per-session counters, loaded knowledge and registered websocket.
C11_Isolated ==
    [][\A a \in SessionIds, b \in SessionIds :
         a # b => (UNCHANGED SessionView(b) \/ ~OperationOn(a))
      ]_vars

\* A send for s1 has failed on its provider connection while s2 is
\* connected and has had a chunk forwarded.
C11_Witness ==
    /\ rtlast = [op |-> "send", sid |-> "s1", ok |-> FALSE, raised |-> TRUE]
    /\ HasWebsocket("s2")
    /\ sessions["s2"].chunks_sent = 1

\* The runs of the builder for cache key `key` whose entry is still within
\* its TTL at time t.
LiveBuilds(key, t) ==
    { i \in 1..Len(builds) : builds[i].key = key /\ t < builds[i].at + CacheTtl }

\* The number of cache entries that have not expired.
LiveEntries ==
    Cardinality({k \in DOMAIN context_cache : now < context_cache[k].expires})

\* C12: a session created from knowledge whose fingerprint was built within
\* the TTL does not run the builder and gets the blob of that one build;
\* one created when no build of the fingerprint is within the TTL (a new
\* fingerprint within capacity, or one whose entry has expired) runs the
\* builder exactly once.
C12_BuiltOncePerFingerprint ==
    [][\A s \in SessionIds, k \in KnowledgeInputs :
         (create_session(s, k) /\ LiveEntries < CacheMaxSize) =>
            LET key  == Fingerprint(k)
                live == LiveBuilds(key, now)
            IN IF live # {}
               THEN /\ Cardinality(live) = 1
                    /\ builds' = builds
                    /\ \A i \in live : sessions'[s].system_instructions = builds[i].blob
               ELSE /\ Len(builds') = Len(builds) + 1
                    /\ builds'[Len(builds')].key = key
                    /\ builds'[Len(builds')].at = now
                    /\ sessions'[s].system_instructions = builds'[Len(builds')].blob
      ]_vars

\* The builder has run twice for one fingerprint (the second time after the
\* entry expired), once for another fingerprint in between or around, and
\* both sessions share the blob of the latest build.
C12_Witness ==
    \E i \in 1..Len(builds), j \in 1..Len(builds) :
        /\ i < j
        /\ builds[i].key = builds[j].key
        /\ \E m \in 1..Len(builds) : builds[m].key # builds[i].key
        /\ \A s \in SessionIds :
              /\ s \in DOMAIN sessions
              /\ sessions[s].system_instructions = builds[j].blob

\* C13: no chunk yielded by buffer_text_for_chunking is empty or blank.
C13_NoBlankChunk == \A i \in 1..Len(chunks) : Strip(chunks[i]) # <<>>

Punctuation == {".", "!", "?", ",", ";", ":"}

\* The last chunk was forced out whole with the buffer ending inside a run
\* of ink: the buffer is empty again, the chunk does not end with
\* punctuation, and the text fed so far does not end with a blank.
ForcedOutMidText ==
    /\ cpc = "run"
    /\ buffer = <<>>
    /\ chunks # <<>>
    /\ Last(chunks) # <<>>
    /\ Last(Last(chunks)) \notin Punctuation
    /\ FedText # <<>>
    /\ Last(FedText) \notin Whitespace

\* C14: a chunk that does not end with punctuation is followed in the
\* input by a blank (or by nothing): the fragment that follows a chunk
\* forced out by the ceiling does not continue the chunk's last word.
C14_NoWordSplit ==
    [][(ChunkFeed /\ ForcedOutMidText /\ Last(fed') # None /\ Last(fed') # <<>>)
          => Head(Last(fed')) \in Whitespace]_vars

\* The buffer of the step being taken, after the fed piece was added.
Grown == buffer \o Last(fed')

\* A step that feeds a fragment (not the sentinel).
FeedsText == ChunkFeed /\ Last(fed') # None

Terminators == {".", "!", "?"}

\* t ends with '.', '!' or '?', optionally followed by one space.
AtSentenceBoundary(t) ==
    LET n == Len(t) IN
    /\ n >= 1
    /\ \/ t[n] \in Terminators
       \/ n >= 2 /\ t[n] = " " /\ t[n - 1] \in Terminators

\* C15: within the hard ceiling a fragment makes the chunker emit exactly
\* when the grown buffer has min_chunk_size characters or more and ends at
\* a sentence boundary; the chunk is the whole trimmed buffer and the buffer
\* is emptied, otherwise the buffer just grows. The reply "Hello", ", ",
\* "how are you", "?" with minimum 5 comes out as one chunk.
C15_SentenceEmission ==
    [][/\ (FeedsText /\ Len(Grown) <= HardCeiling) =>
             IF Len(Grown) >= min_chunk_size /\ AtSentenceBoundary(Grown)
             THEN chunks' = Append(chunks, Strip(Grown)) /\ buffer' = <<>>
             ELSE chunks' = chunks /\ buffer' = Grown
       /\ (fed' = HelloFragments /\ min_chunk_size = 5 /\ cpc' = "done")
             => chunks' = <<HelloReply>>]_vars

\* The reply of the example was streamed to its end and came out whole.
C15_Witness ==
    /\ fed = HelloFragments
    /\ min_chunk_size = 5
    /\ cpc = "done"
    /\ chunks = <<HelloReply>>

\* The softer boundaries: a trailing comma, or a trailing space once the
\* buffer holds twice the minimum chunk size.
AtSoftBoundary(t, minsize) ==
    /\ t # <<>>
    /\ \/ Last(t) = ","
       \/ Last(t) = " " /\ Len(t) >= 2 * minsize

\* C16: a fragment that leaves the buffer, not blank, at a softer boundary
\* makes the chunker emit.
C16_SoftBoundaryEmits ==
    [][(FeedsText /\ AtSoftBoundary(Grown, min_chunk_size)
          /\ Strip(Grown) # <<>>)
          => Len(chunks') = Len(chunks) + 1]_vars

\* C17: a fragment that takes the buffer over the hard ceiling with no
\* sentence boundary makes the chunker emit in that step, all words but the
\* last when there are several; the last word stays buffered and the buffer
\* is not above the ceiling afterwards.
C17_CeilingForcesEmission ==
    [][(FeedsText /\ Len(Grown) > HardCeiling
          /\ ~(Len(Grown) >= min_chunk_size /\ AtSentenceBoundary(Grown)))
        => LET words == Split(Grown) IN
           /\ Len(chunks') = Len(chunks) + 1
           /\ Len(words) > 1 =>
                 /\ Last(chunks') = Join(Front(words))
                 /\ buffer' = Last(words)
           /\ Len(buffer') <= HardCeiling]_vars

\* C18: when the stream is exhausted the chunker ends: a remainder that is
\* not blank is yielded, trimmed, as one last chunk, a blank remainder
\* yields nothing, nothing stays buffered, and no step follows.
C18_FinalFlush ==
    [][/\ cpc = "run" /\ cpc' = "done" =>
            /\ chunks' = IF Strip(buffer) # <<>>
                         THEN Append(chunks, Strip(buffer)) ELSE chunks
            /\ buffer' = <<>>
       /\ cpc # "done"]_vars

\* A stream ended with a remainder that came out as the last chunk after an
\* earlier one.
C18_Witness ==
    /\ cpc = "done"
    /\ fed = << <<"a", "b">>, <<".">>, <<" ", "c">> >>
    /\ chunks = << <<"a", "b", ".">>, <<"c">> >>

\* The loop run on the pieces from state [out, buf].
RECURSIVE ChunkRun(_, _, _)
ChunkRun(state, pieces, minsize) ==
    IF pieces = <<>> THEN state
    ELSE LET r == ChunkStep(state.buf, Head(pieces), minsize) IN
         ChunkRun([out |-> state.out \o r.out, buf |-> r.buf],
                  Tail(pieces), minsize)

\* The pieces fed so far without the None sentinels.
FedFragments == SelectSeq(fed, LAMBDA piece : piece # None)

\* C19: the None sentinel changes neither the buffer nor the chunks and
\* does not end the chunking: the chunker is where it would be had only the
\* fragments been fed.
C19_SentinelIgnored ==
    LET clean == ChunkRun([out |-> <<>>, buf |-> <<>>], FedFragments,
                          min_chunk_size)
    IN IF cpc = "run"
       THEN chunks = clean.out /\ buffer = clean.buf
       ELSE chunks = clean.out \o ChunkFlush(clean.buf)

\* A sentinel arrived between two fragments of one sentence, which came out
\* as one chunk.
C19_Witness ==
    /\ fed = << <<"a", "b">>, None, <<".">> >>
    /\ chunks = << <<"a", "b", ".">> >>
    /\ buffer = <<>>
    /\ cpc = "run"

\* The place of a notification in the stages of a reply: transcribing,
\* transcription, searching, generating, then for chunk n its text, the
\* conversion notice, its audio frame or warning and the receipt, and the
\* completion after the last chunk.  Other frames have no place (0).
Stage(m) ==
    CASE m.type = "processing" /\ m.arg = "transcribing" -> 1
      [] m.type = "transcription" -> 2
      [] m.type = "processing" /\ m.arg = "searching" -> 3
      [] m.type = "processing" /\ m.arg = "generating" -> 4
      [] m.type = "text_chunk" -> 4 * m.n + 1
      [] m.type = "processing" /\ m.arg = "converting_chunk" -> 4 * m.n + 2
      [] m.type \in {"audio", "warning"} -> 4 * m.n + 3
      [] m.type = "audio_chunk_sent" -> 4 * m.n + 4
      [] m.type = "response_complete" -> 4 * m.n + 5
      [] OTHER -> 0

\* The frames of inbox inb after the first `old` ones come, within their
\* reply, after every frame before them in stage order; only the
\* generating notice, which the handler sends twice, repeats.
InStageOrder(inb, old) ==
    \A j \in (old + 1)..Len(inb), i \in 1..Len(inb) :
        (/\ i < j
         /\ inb[i].src = inb[j].src /\ inb[i].reply = inb[j].reply
         /\ Stage(inb[i]) > 0 /\ Stage(inb[j]) > 0)
        => \/ Stage(inb[i]) < Stage(inb[j])
           \/ Stage(inb[i]) = 4 /\ Stage(inb[j]) = 4

\* The knowledge was searched once for an utterance whose reply is being
\* generated, and not yet for one being transcribed.
SearchedOnce(rec) ==
    /\ rec.searches <= 1
    /\ rec.pc = "stt" => rec.searches = 0
    /\ rec.pc \in {"gen", "tts"} => rec.searches = 1

ChunksBefore(inb, j) ==
    SelectSeq(SubSeq(inb, 1, j - 1),
              LAMBDA m : /\ m.type = "text_chunk"
                         /\ m.src = inb[j].src
                         /\ m.reply = inb[j].reply)

Connected(s) ==
    IF HasWebsocket(s) THEN sessions[s].status = "connected" ELSE FALSE

\* The events put on provider connection c in the step.
NewEvents(c) == SubSeq(conns'[c].sent, Len(conns[c].sent) + 1, Len(conns'[c].sent))

ConversionFails(a) ==
    /\ ~validate_pcm16_24khz(a)
    /\ resample_pcm16(a, DefaultSourceRate, TargetRate) = NoBytes

\* C23: send_audio_chunk with a buffer whose conversion fails sends nothing
\* to the provider, counts one rejected chunk and leaves the status and the
\* provider connection of the session as they are.
C23_FailedConversionDropped ==
    [][\A s \in SessionIds, a \in AudioInputs :
         (HasWebsocket(s) /\ ConversionFails(a) /\ send_audio_chunk(s, a)) =>
            /\ conns' = conns
            /\ audio_stats'.rejected_chunks = audio_stats.rejected_chunks + 1
            /\ s \in DOMAIN sessions'
            /\ sessions'[s].status = sessions[s].status
            /\ sessions'[s].websocket = sessions[s].websocket
      ]_vars

\* The leading 16-bit little-endian samples of buffer a that the
\* validation looks at (ten at most).
LeadingSamples(a) ==
    [i \in 1..Min(10, Len(a) \div 2) |-> Sample16(a[2 * i - 1], a[2 * i])]

\* C24: validate_pcm16_24khz returns true exactly for the buffers of even
\* length, two bytes at least, whose leading samples are within the signed
\* 16-bit range; so false for every buffer of odd length and for the empty
\* one.
C24_ValidateIffCanonical ==
    audio_call.fn = "validate" =>
        /\ audio_ret.flag =
              ( /\ Len(audio_in) % 2 = 0
                /\ Len(audio_in) >= 2
                /\ \A i \in 1..Len(LeadingSamples(audio_in)) :
                      /\ -32768 <= LeadingSamples(audio_in)[i]
                      /\ LeadingSamples(audio_in)[i] <= 32767 )
        /\ Len(audio_in) % 2 = 1 => ~audio_ret.flag
        /\ audio_in = <<>> => ~audio_ret.flag

\* A buffer of thirteen bytes was validated and refused.
C24_Witness ==
    /\ audio_call.fn = "validate"
    /\ Len(audio_in) = 13
    /\ ~audio_ret.flag

\* C25: convert_to_pcm16_24khz called once or twice in a row, starting from
\* a buffer that passes validate_pcm16_24khz, returns that buffer, whatever
\* format and sample rate are declared.
C25_ConvertIdempotent ==
    (audio_call.fn = "convert" /\ validate_pcm16_24khz(audio_call.origin))
        => audio_ret.data = audio_call.origin

\* A canonical buffer of twelve bytes, declared as 48 kHz, went through the
\* conversion twice and came back as it was.
C25_Witness ==
    /\ audio_call.fn = "convert"
    /\ audio_call.pass = 2
    /\ audio_call.rate = DefaultSourceRate
    /\ Len(audio_call.origin) = 12
    /\ validate_pcm16_24khz(audio_call.origin)
    /\ audio_ret.data = audio_call.origin

\* C26: convert_to_pcm16_24khz returns None for a buffer whose conversion
\* fails (it is not canonical and cannot be resampled).
C26_FailureSignalled ==
    (audio_call.fn = "convert" /\ ConversionFails(audio_in))
        => audio_ret.data = NoBytes

\* Buffer a begins with the bytes magic.
StartsWith(a, magic) ==
    IF Len(a) >= Len(magic) THEN SubSeq(a, 1, Len(magic)) = magic ELSE FALSE

\* The container whose magic number buffer a begins with, "" for none.
ContainerTag(a) ==
    IF StartsWith(a, <<82, 73, 70, 70>>) /\ Len(a) >= 12
       /\ SubSeq(a, 9, Min(12, Len(a))) = <<87, 65, 86, 69>> THEN "wav"
    ELSE IF StartsWith(a, <<26, 69, 223, 163>>) THEN "webm"
    ELSE IF StartsWith(a, <<73, 68, 51>>) \/ StartsWith(a, <<255, 251>>) THEN "mp3"
    ELSE IF StartsWith(a, <<79, 103, 103, 83>>) THEN "ogg"
    ELSE ""

\* C27: detect_audio_format returns the tag of the container whose magic
\* number the buffer begins with; for a buffer that begins with none it
\* returns pcm16 when the buffer passes validate_pcm16_24khz and unknown
\* when it does not, whatever its length.
C27_DetectFormat ==
    audio_call.fn = "detect" =>
        audio_ret.tag =
            IF ContainerTag(audio_in) # "" THEN ContainerTag(audio_in)
            ELSE IF validate_pcm16_24khz(audio_in) THEN "pcm16"
            ELSE "unknown"

\* C28: when connect_session has returned for a session in the store, the
\* status is 'connected' only if the provider connection was opened and the
\* session configuration was put on it, and 'error' otherwise.
C28_ConnectedOnlyConfigured ==
    [][\A s \in SessionIds :
         (s \in DOMAIN sessions /\ connect_session(s)) =>
            IF sessions'[s].status = "connected"
            THEN /\ sessions'[s].websocket # NoConn
                 /\ conns'[sessions'[s].websocket].sent # <<>>
                 /\ conns'[sessions'[s].websocket].sent[1].type = "session.update"
            ELSE sessions'[s].status = "error"
      ]_vars

\* The place of a status on the path created, connecting, connected,
\* closed.
StatusRank(status) ==
    CASE status = "created" -> 1
      [] status = "connecting" -> 2
      [] status = "connected" -> 3
      [] status = "closed" -> 4
      [] OTHER -> 0

\* C29: the status of an entry that stays in the session store is left
\* alone, moves forward on the path, or becomes 'error'; it does not go
\* back from 'connected' or 'error' to an earlier status and does not leave
\* 'error' for 'connected'.
C29_StatusForward ==
    [][\A s \in SessionIds :
         (s \in DOMAIN sessions /\ s \in DOMAIN sessions') =>
            LET old == sessions[s].status
                new == sessions'[s].status
            IN \/ new = old
               \/ new = "error" /\ old # "closed"
               \/ old # "error" /\ StatusRank(old) < StatusRank(new)
      ]_vars

\* The provider connection recorded in the entry of s can be used.
Usable(s) ==
    IF HasWebsocket(s) THEN conns[sessions[s].websocket].state = "open" ELSE FALSE

\* C30: an entry with status 'created' or 'error' has no usable provider
\* connection, and every append event on a provider connection was sent
\* while the status of its session was 'connected'.
C30_HandleOnlyWhileConnected ==
    [][/\ \A s \in SessionIds :
             (s \in DOMAIN sessions' /\ sessions'[s].status \in {"created", "error"})
                => ~Usable(s)'
       /\ \A s \in SessionIds, a \in AudioInputs :
             ( /\ HasWebsocket(s)
               /\ send_audio_chunk(s, a)
               /\ conns' # conns ) => sessions[s].status = "connected"
      ]_vars

\* The Audio elements that sound.
Sounding == {e \in 1..Len(players) : players[e].playback = "playing"}

\* C31: in the browser client at most one audio chunk plays at any time,
\* and the chunks are started in the order in which they arrived, whatever
\* the order of chunk arrivals, playback ends, playback errors, rejected
\* play() calls, timers and the queue reset on a transcription.
C31_SequentialPlayback ==
    /\ Cardinality(Sounding) <= 1
    /\ \A e \in 1..Len(players), f \in 1..Len(players) :
          e < f => players[e].blob < players[f].blob

\* The sentences of a text: its pieces between the blanks that follow a
\* terminator, without the blanks around them, the empty ones left out.
Sentences(text) ==
    LET pieces == SentenceSplit(text)
        Trimmed == [k \in 1..Len(pieces) |-> Strip(pieces[k])]
    IN SelectSeq(Trimmed, LAMBDA s : s # <<>>)

\* The characters of t that are not blank, in order.
NonBlank(t) == SelectSeq(t, LAMBDA c : c \notin Whitespace)

\* The chunks out are the sentences S cut into consecutive runs, each run
\* joined by single spaces, and a run of several sentences is estimated at
\* no more than m tokens.
RECURSIVE IsRuns(_, _, _)
IsRuns(out, S, m) ==
    IF out = <<>> THEN S = <<>>
    ELSE \E n \in 1..Len(S) :
            /\ Head(out) = Join(SubSeq(S, 1, n))
            /\ n > 1 => Len(Head(out)) \div 4 <= m
            /\ IsRuns(Tail(out), SubSeq(S, n + 1, Len(S)), m)

\* C32: chunk_text_for_tts cuts a text at sentence boundaries only: the
\* chunks are the sentences of the text in order, in consecutive runs,
\* none dropped or repeated and no character but blanks lost, no chunk is
\* empty, and a chunk of more than one sentence is estimated (len // 4) at
\* no more than max_tokens.
C32_WholeSentences ==
    tts_call.calls = 1 =>
        /\ \A i \in 1..Len(tts_ret) :
              tts_ret[i] # <<>> /\ Strip(tts_ret[i]) = tts_ret[i]
        /\ IsRuns(tts_ret, Sentences(tts_call.text), tts_call.max_tokens)
        /\ NonBlank(Flatten(tts_ret)) = NonBlank(tts_call.text)

\* A call has returned a chunk of two sentences and a chunk after it.
C32_Witness ==
    /\ tts_call.calls = 1
    /\ Len(tts_ret) >= 2
    /\ Len(Sentences(tts_ret[1])) = 2
    /\ Len(Sentences(tts_call.text)) >= 3

\* Session s was started and end_session(s) has returned: an id is given
\* out once, and only end_session takes an entry out of active_sessions.
SessionEnded(s) == s \in DOMAIN load_task /\ s \notin DOMAIN active_sessions

\* C33: once end_session(s) has returned and the background load of s has
\* finished, in whichever order, neither the session store nor the
\* knowledge store holds anything for s.
C33_NoStateAfterEnd ==
    \A s \in SessionIds :
        (SessionEnded(s) /\ load_task[s] = "done") =>
            /\ s \notin DOMAIN active_sessions
            /\ s \notin session_knowledge

\* The handler of socket w is in its receive loop, on a session that has
\* not been ended.
InLoop(w) ==
    /\ ws[w].pc \in {"recv", "stt", "gen", "tts"}
    /\ ws[w].sid \in DOMAIN active_sessions

\* C34: while a websocket handler of a session is in its receive loop, the
\* connection registry maps the session id to that handler's own socket,
\* also after a second websocket was opened for the session and after
\* another websocket of the session was closed.
C34_OwnSocketRegistered ==
    \A w \in SocketIds :
        InLoop(w) =>
            /\ ws[w].sid \in DOMAIN active_connections
            /\ active_connections[ws[w].sid] = w

\* C35: the instructions create_session stores for a session are what the
\* builder makes of that session's own list of passages, whether they came
\* from the cache or not, and whatever list was built before.
C35_CacheHitSameResult ==
    [][\A s \in SessionIds, k \in KnowledgeInputs :
         create_session(s, k) =>
            sessions'[s].system_instructions = BuildContext(k)
      ]_vars

\* The append events on provider connection c.
Appends(cs, c) ==
    Cardinality({i \in 1..Len(cs[c].sent) :
                    cs[c].sent[i].type = "input_audio_buffer.append"})

\* C36: after every completed call the global total is the sum of the
\* valid, converted and rejected counters, no global counter has gone
\* down, no session counts more converted chunks than chunks sent, and a
\* call of send_audio_chunk that counts a chunk for its session and does
\* not count it as rejected has put exactly one append event on the
\* session's provider connection (so events sent = chunks_sent - rejected).
C36_CountersConsistent ==
    [][/\ audio_stats'.total_chunks_processed =
            audio_stats'.valid_chunks + audio_stats'.converted_chunks
            + audio_stats'.rejected_chunks
       /\ audio_stats'.total_chunks_processed >= audio_stats.total_chunks_processed
       /\ audio_stats'.valid_chunks >= audio_stats.valid_chunks
       /\ audio_stats'.converted_chunks >= audio_stats.converted_chunks
       /\ audio_stats'.rejected_chunks >= audio_stats.rejected_chunks
       /\ \A s \in DOMAIN sessions' :
             sessions'[s].chunks_converted <= sessions'[s].chunks_sent
       /\ \A s \in SessionIds, audio \in AudioInputs :
             (send_audio_chunk(s, audio) /\ HasWebsocket(s)) =>
                Appends(conns', sessions[s].websocket)
                  - Appends(conns, sessions[s].websocket)
                = (sessions'[s].chunks_sent - sessions[s].chunks_sent)
                  - (audio_stats'.rejected_chunks - audio_stats.rejected_chunks)
      ]_vars

\* The client of socket w is connected to the running handler of a session
\* that exists.
Attached(w) == InLoop(w) /\ ws[w].open

\* The client of socket w has received a session_update with status ready
\* or error.
Notified(w) ==
    \E i \in 1..Len(inbox[w]) :
        /\ inbox[w][i].type = "session_update"
        /\ inbox[w][i].arg \in {"ready", "error"}

\* C37: under fair scheduling a client connected to an existing session
\* receives, unless it disconnects or the session is ended first, a
\* session_update with status ready or error, whether it connected before
\* or after the background load finished.
C37_EventuallyNotified ==
    \A w \in SocketIds : Attached(w) ~> (Notified(w) \/ ~Attached(w))

\* C38: every session in active_sessions has status loading, ready or
\* error; knowledge_loaded is true exactly when the status is ready; a
\* session in status ready has chunks in the knowledge store; and a status
\* changes only from loading, to ready or to error.
C38_StatusLifecycle ==
    [][\A s \in DOMAIN active_sessions' :
         /\ active_sessions'[s].status \in {"loading", "ready", "error"}
         /\ active_sessions'[s].knowledge_loaded
              <=> active_sessions'[s].status = "ready"
         /\ active_sessions'[s].status = "ready" => s \in session_knowledge'
         /\ (s \in DOMAIN active_sessions
              /\ active_sessions'[s].status # active_sessions[s].status) =>
                /\ active_sessions[s].status = "loading"
                /\ active_sessions'[s].status \in {"ready", "error"}
      ]_vars

\* One session has become ready, with its chunks in the knowledge store,
\* and another has gone to error.
C38_Witness ==
    \E s \in DOMAIN active_sessions, e \in DOMAIN active_sessions :
        /\ active_sessions[s].status = "ready"
        /\ active_sessions[s].knowledge_loaded
        /\ s \in session_knowledge
        /\ active_sessions[e].status = "error"
        /\ load_task[s] = "done" /\ load_task[e] = "done"

\* C39: a knowledge search with its reply generation is started for a
\* session only while the session's status is ready: the handler of a
\* websocket starts none in a step that finds its session loading or in
\* error, and a text query on such a session is rejected before the search.
C39_SearchOnlyWhenReady ==
    [][/\ \A w \in SocketIds :
            ( /\ ws'[w].searches = ws[w].searches + 1
              /\ ws[w].sid \in DOMAIN active_sessions )
            => active_sessions[ws[w].sid].status = "ready"
       /\ \A s \in DOMAIN active_sessions' :
            active_sessions'[s].status # "ready"
            => process_text_query(active_sessions', s) = "400"
      ]_vars
====
